---------------------------- MODULE Spec2Model ----------------------------
(***************************************************************************)
(* A model of src/main.cpp: the entity store (World), the particle pool    *)
(* (ParticleSystem), the AABB collision pass (Engine::collisionSolve and   *)
(* Engine::resolveCollision) and the fixed-timestep loop (Engine::run and  *)
(* Engine::fixedUpdate, Engine::render, Engine::computeCamera).            *)
(*                                                                         *)
(* Units.  The code computes in float/double; the model computes in        *)
(* integers, in units chosen so that the code's arithmetic is exact:       *)
(*   - lengths are in quarter pixels, velocities in quarter pixels per     *)
(*     fixed step (dt = 1/60 s), so gravity = 900 px/s^2 adds exactly 1 to *)
(*     vy in each step and x += vx*dt is x + vx;                           *)
(*   - times of the loop driver are in 1/600 s, so the fixed step is 10    *)
(*     and the accumulator clamp 0.25 s is 150;                            *)
(*   - particle ages and lives are in 1/3 ms, so dt*1000 is 50;            *)
(*   - animation timers and frame times are in 1/60000 s, so dt is 1000; a *)
(*     float frame time is rounded up to the unit (0.1f = 0.1000000015 is  *)
(*     6001), which keeps every test timer >= frameTime as the code's      *)
(*     doubles decide it: six steps of 1/60 s do not reach 0.1f.           *)
(***************************************************************************)
EXTENDS Integers, Sequences, FiniteSets, TLC

VARIABLES
    nextId,       \* World::nextId
    entities,     \* World::entities, the active list (a sequence of ids)
    components,   \* World::components: id -> (name -> component)
    pool,         \* ParticleSystem::pool (a sequence of slots)
    pc,           \* position of the program (which specification runs, and where)
    running,      \* Engine::running
    quit,         \* InputState::quit
    keys,         \* InputState::keys, as the set of keys that are down
    accumulator,  \* Engine::run's local accumulator
    frameTime,    \* Engine::run's local frameTime of the current frame
    camX,         \* Engine::camX
    camY,         \* Engine::camY
    audioAvailable, \* Engine::audioAvailable
    textures,     \* ResourceManager::textures, as the set of ids loaded
    sounds,       \* ResourceManager::sounds: id -> the loaded Sound
    inputMap,     \* InputMap::map: action -> key
    acquired,     \* history: what main has acquired so far, in order
    released,     \* history: what cleanup has released so far, in order
    played,       \* history: the sounds handed to Mix_PlayChannel / Mix_PlayMusic
    bound,        \* history: action -> the keys ever passed to bind for it
    issued,       \* history: the ids returned by World::create, in order
    killed,       \* history: the issued ids that were passed to World::destroy
    prev,         \* history: the operation last applied and the state before it
    log,          \* history: what the current fixed update has done so far
    steps,        \* history: fixed updates run so far in the current frame
    frames,       \* history: frames started so far
    simulated,    \* history: fixed updates run since Engine::run began
    elapsed       \* history: the frame times added to the accumulator, summed

worldVars == <<nextId, entities, components>>
engineVars == <<pc, running, quit, keys, accumulator, frameTime, camX, camY>>
histVars == <<issued, killed, prev, log, steps, frames>>
clockVars == <<simulated, elapsed>>
sysVars == <<audioAvailable, textures, sounds, inputMap, acquired, released,
             played, bound>>
vars == <<nextId, entities, components, pool, pc, running, quit, keys,
          accumulator, frameTime, camX, camY, audioAvailable, textures,
          sounds, inputMap, acquired, released, played, bound, issued, killed,
          prev, log, steps, frames, simulated, elapsed>>

-----------------------------------------------------------------------------
(* Bounds of the model. *)

\* World::create is called at most this many times.
MaxId == 3
\* Slots of the particle pool.
PoolSize == 3
\* Largest particle count passed to emit.
MaxEmit == 4
\* Calls of ParticleSystem::update in the pool specification.
MaxPoolUpdates == 2
\* Frames of Engine::run.
MaxFrames == 2

-----------------------------------------------------------------------------
(* Helpers on functions and sequences. *)

Range(s) == {s[i] : i \in DOMAIN s}

EmptyFn == [x \in {} |-> 0]

FnPut(f, k, v) == [x \in DOMAIN f \cup {k} |-> IF x = k THEN v ELSE f[x]]

FnDel(f, k) == [x \in DOMAIN f \ {k} |-> f[x]]

Abs(x) == IF x < 0 THEN -x ELSE x

Min(a, b) == IF a < b THEN a ELSE b

Max(a, b) == IF a < b THEN b ELSE a

StrictlyIncreasing(s) == \A i, j \in DOMAIN s : i < j => s[i] < s[j]

-----------------------------------------------------------------------------
(* Components (struct Transform, Physics, Collider, Script, AnimatedSprite). *)

\* A null shared_ptr.
None == [kind |-> "none"]

\* Physics::gravity = 900.0f px/s^2, in quarter pixels per step^2.
DefaultGravity == 1

Transform(x, y) == [kind |-> "transform", x |-> x, y |-> y]

Physics(vx, vy, onGround) ==
    [kind |-> "physics", vx |-> vx, vy |-> vy, ax |-> 0, ay |-> 0,
     gravity |-> DefaultGravity, onGround |-> onGround]

Collider(w, h, isStatic) ==
    [kind |-> "collider", w |-> w, h |-> h, offx |-> 0, offy |-> 0,
     isStatic |-> isStatic]

Script(fn) == [kind |-> "script", onUpdate |-> fn]

AnimatedSprite(frameCount, frameTimeA) ==
    [kind |-> "animated", frameCount |-> frameCount, frameTime |-> frameTimeA,
     current |-> 0, timer |-> 0]

-----------------------------------------------------------------------------
(* World. *)

\* World::create: a buggy variant that derives the id from the list length.
World_create_reuse(nid, ents) ==
    [id |-> Len(ents) + 1, nextId |-> nid + 1,
     entities |-> Append(ents, Len(ents) + 1)]

\* World::create: int id = nextId++; entities.push_back(id); return id;
World_create(nid, ents) ==
    [id |-> nid, nextId |-> nid + 1, entities |-> Append(ents, nid)]

\* std::remove + erase: every occurrence of id leaves, the order of the rest stays.
RECURSIVE RemoveAll(_, _)
RemoveAll(s, id) ==
    IF s = <<>> THEN <<>>
    ELSE IF Head(s) = id THEN RemoveAll(Tail(s), id)
         ELSE <<Head(s)>> \o RemoveAll(Tail(s), id)

\* World::destroy, on the active list.
World_destroy_entities(ents, id) == RemoveAll(ents, id)

\* World::destroy, on the component table: components.erase(id).
World_destroy_components(comps, id) == FnDel(comps, id)

\* World::add: components[id][name] = comp; operator[] creates the entry of id.
World_add(comps, id, name, comp) ==
    FnPut(comps, id,
          FnPut(IF id \in DOMAIN comps THEN comps[id] ELSE EmptyFn, name, comp))

\* World::get: null when id has no entry or the entry has no such name.
World_get(comps, id, name) ==
    IF id \notin DOMAIN comps THEN None
    ELSE IF name \notin DOMAIN comps[id] THEN None
         ELSE comps[id][name]

\* The component names the scenes of the source use.
CompNames == {"transform", "sprite", "physics", "collider", "script", "camera"}

-----------------------------------------------------------------------------
(* The values of the variables a specification does not use. *)

NoOp == [op |-> "none"]

IdleEngine ==
    /\ running = FALSE
    /\ quit = FALSE
    /\ keys = {}
    /\ accumulator = 0
    /\ frameTime = 0
    /\ camX = 0
    /\ camY = 0

IdleHistory ==
    /\ issued = <<>>
    /\ killed = {}
    /\ prev = NoOp
    /\ log = <<>>
    /\ steps = 0
    /\ frames = 0
    /\ simulated = 0
    /\ elapsed = 0

EmptyWorld ==
    /\ nextId = 1
    /\ entities = <<>>
    /\ components = EmptyFn

IdleSys ==
    /\ audioAvailable = TRUE
    /\ textures = {}
    /\ sounds = EmptyFn
    /\ inputMap = EmptyFn
    /\ acquired = <<>>
    /\ released = <<>>
    /\ played = {}
    /\ bound = EmptyFn

-----------------------------------------------------------------------------
(* SpecWorld: the entity store under any sequence of create, destroy, add. *)

\* The ids the callers pass: every id create can return, and one it never does.
CallIds == 1..(MaxId + 1)

CallNames == {"transform", "physics"}

\* The component the callers add under a name.
CallComp(name) ==
    IF name = "transform" THEN Transform(0, 0) ELSE Physics(0, 0, FALSE)

InitWorld ==
    /\ EmptyWorld
    /\ pool = <<>>
    /\ pc = "world"
    /\ IdleEngine
    /\ IdleHistory
    /\ IdleSys

Create ==
    /\ pc = "world"
    /\ nextId <= MaxId
    /\ LET r == World_create(nextId, entities)
       IN /\ nextId' = r.nextId
          /\ entities' = r.entities
          /\ issued' = Append(issued, r.id)
          /\ prev' = [op |-> "create"]
    /\ UNCHANGED <<components, pool, engineVars, killed, log, steps, frames>>
    /\ UNCHANGED sysVars
    /\ UNCHANGED clockVars

Destroy ==
    /\ pc = "world"
    /\ \E id \in CallIds :
          /\ entities' = World_destroy_entities(entities, id)
          /\ components' = World_destroy_components(components, id)
          /\ killed' = killed \cup ({id} \cap Range(issued))
          /\ prev' = [op |-> "destroy"]
    /\ UNCHANGED <<nextId, pool, engineVars, issued, log, steps, frames>>
    /\ UNCHANGED sysVars
    /\ UNCHANGED clockVars

Add ==
    /\ pc = "world"
    /\ \E id \in CallIds, name \in CallNames :
          /\ components' = World_add(components, id, name, CallComp(name))
          /\ prev' = [op |-> "add"]
    /\ UNCHANGED <<nextId, entities, pool, engineVars, issued, killed, log,
                   steps, frames>>
    /\ UNCHANGED sysVars
    /\ UNCHANGED clockVars

NextWorld == Create \/ Destroy \/ Add

SpecWorld == InitWorld /\ [][NextWorld]_vars

-----------------------------------------------------------------------------
(* ParticleSystem. *)

\* pool[i].age = 1e9f of the constructor (ms; it exceeds every life, and a
\* dead slot's age is never advanced).
DeadAge == 1000000000

\* dt*1000.0f for dt = 1/60 s, in 1/3 ms.
AgePerStep == 50

\* vector::resize value-initialises the slots (all fields 0), then age = 1e9f.
NewPool(maxP) ==
    [i \in 1..maxP |->
        [x |-> 0, y |-> 0, vx |-> 0, vy |-> 0, life |-> 0, age |-> DeadAge]]

\* The liveness test of update, render and findFree: age < life.
Live(p) == p.age < p.life

\* findFree, a buggy variant: the first slot, dead or not (0 for -1).
findFree_first(pl) == IF Len(pl) > 0 THEN 1 ELSE 0

\* findFree: the first slot with age >= life, or -1 (0 here: slots count from 1).
findFree(pl) ==
    IF \E i \in DOMAIN pl : ~Live(pl[i])
    THEN CHOOSE i \in DOMAIN pl :
            /\ ~Live(pl[i])
            /\ \A j \in DOMAIN pl : j < i => Live(pl[j])
    ELSE 0

\* What rand() gives one particle: life = 300 + rand()%800 (ms) in 1/3 ms, and
\* (cosf(ang)*sp, sinf(ang)*sp) for a speed sp in [50, 250] px/s in 1/12 px per
\* step.  Two of the outcomes: the shortest life, and the longest.
EmitDraws ==
    {[vx |-> 10, vy |-> 0, life |-> 900], [vx |-> -30, vy |-> -40, life |-> 3297]}

\* The points the callers emit at.
EmitPoints == {<<12, -24>>}

\* ParticleSystem::emit: the pools it can leave, one per outcome of rand().
RECURSIVE emit(_, _, _, _)
emit(pl, x, y, n) ==
    IF n <= 0 THEN {pl}
    ELSE LET idx == findFree(pl)
         IN IF idx = 0 THEN {pl}
            ELSE UNION {
                   emit([pl EXCEPT ![idx] =
                            [x |-> x, y |-> y, vx |-> d.vx, vy |-> d.vy,
                             life |-> d.life, age |-> 0]],
                        x, y, n - 1)
                   : d \in EmitDraws }

\* ParticleSystem::update, a variant without the test age < life.
update_all(pl, k) ==
    [i \in DOMAIN pl |->
        LET p == pl[i]
            vy2 == p.vy + k
        IN [p EXCEPT !.age = p.age + AgePerStep * k,
                     !.vy = vy2,
                     !.x = p.x + p.vx * k,
                     !.y = p.y + vy2 * k]]

\* ParticleSystem::update(dt) for dt = k fixed steps: in the model's units
\* dt*1000 is 50k, 300*dt is k, and vx*dt is vx*k.
update(pl, k) ==
    [i \in DOMAIN pl |->
        IF Live(pl[i])
        THEN LET p == pl[i]
                 vy2 == p.vy + k
             IN [p EXCEPT !.age = p.age + AgePerStep * k,
                          !.vy = vy2,
                          !.x = p.x + p.vx * k,
                          !.y = p.y + vy2 * k]
        ELSE pl[i]]

-----------------------------------------------------------------------------
(* SpecPool: the particle pool under any sequence of emit and update. *)

\* The dt the callers pass to update, in fixed steps: 1/60 s and 0.3 s.
UpdateSteps == {1, 18}

InitPool ==
    /\ EmptyWorld
    /\ pool = NewPool(PoolSize)
    /\ pc = "pool"
    /\ IdleEngine
    /\ IdleHistory
    /\ IdleSys

Emit ==
    /\ pc = "pool"
    /\ \E pt \in EmitPoints, n \in 0..MaxEmit :
          /\ pool' \in emit(pool, pt[1], pt[2], n)
          /\ prev' = [op |-> "emit", n |-> n, pool |-> pool]
    /\ UNCHANGED <<worldVars, engineVars, issued, killed, log, steps, frames>>
    /\ UNCHANGED sysVars
    /\ UNCHANGED clockVars

Update ==
    /\ pc = "pool"
    /\ steps < MaxPoolUpdates
    /\ \E k \in UpdateSteps :
          /\ pool' = update(pool, k)
          /\ prev' = [op |-> "update", n |-> k, pool |-> pool]
    /\ steps' = steps + 1
    /\ UNCHANGED <<worldVars, engineVars, issued, killed, log, frames>>
    /\ UNCHANGED sysVars
    /\ UNCHANGED clockVars

NextPool == Emit \/ Update

SpecPool == InitPool /\ [][NextPool]_vars

DeadSlots(pl) == {i \in DOMAIN pl : ~Live(pl[i])}

LiveSlots(pl) == {i \in DOMAIN pl : Live(pl[i])}

(* C6: emit(x, y, N) with F dead slots turns exactly min(N, F) dead slots   *)
(* into live particles of age 0, leaves every live particle (and every      *)
(* other dead slot) as it was, and keeps the capacity; into a fully live    *)
(* pool it changes nothing.                                                 *)
C6_EmitExhaustion ==
    prev.op = "emit" =>
        LET before == prev.pool
            made == LiveSlots(pool) \ LiveSlots(before)
        IN /\ Len(pool) = Len(before)
           /\ Cardinality(made) = Min(prev.n, Cardinality(DeadSlots(before)))
           /\ \A i \in made : pool[i].age = 0 /\ pool[i].age < pool[i].life
           /\ \A i \in DOMAIN before \ made : pool[i] = before[i]
           /\ (DeadSlots(before) = {} => pool = before)

\* An emit asked for more particles than there were dead slots, with some
\* slots live and some dead before it.
C6_Witness ==
    /\ prev.op = "emit"
    /\ LiveSlots(prev.pool) # {}
    /\ DeadSlots(prev.pool) # {}
    /\ prev.n > Cardinality(DeadSlots(prev.pool))
    /\ DeadSlots(pool) = {}

(* C21: update(dt) changes position, velocity and age only of the slots     *)
(* with age < life: it advances the age of each of them by dt*1000 and      *)
(* never changes a life; every dead slot (age >= life), a never-used one    *)
(* included, is left as it was, and a dead slot becomes live only by an     *)
(* emit.                                                                    *)
C21_UpdateLiveOnly ==
    /\ [](prev.op = "update" =>
            /\ Len(pool) = Len(prev.pool)
            /\ \A i \in DOMAIN pool :
                  /\ pool[i].life = prev.pool[i].life
                  /\ Live(prev.pool[i]) =>
                        pool[i].age = prev.pool[i].age + AgePerStep * prev.n
                  /\ ~Live(prev.pool[i]) =>
                        pool[i] = prev.pool[i] /\ ~Live(pool[i]))
    /\ [][\A i \in DOMAIN pool :
             (~Live(pool[i]) /\ Live(pool'[i])) =>
                 (prev'.op = "emit" /\ pool'[i].age = 0)]_vars

\* An update of a pool with a live slot, an expired slot and a never-used
\* slot: the live one has aged and moved, the other two are as they were.
C21_Witness ==
    /\ prev.op = "update"
    /\ \E i, j, k \in DOMAIN pool :
          /\ Live(prev.pool[i])
          /\ pool[i].age > prev.pool[i].age
          /\ pool[i].x # prev.pool[i].x
          /\ ~Live(prev.pool[j]) /\ prev.pool[j].life > 0
          /\ pool[j] = prev.pool[j]
          /\ prev.pool[k].life = 0 /\ prev.pool[k].age = DeadAge
          /\ pool[k] = prev.pool[k]

-----------------------------------------------------------------------------
(* Collision: Engine::AABB, aabbIntersect, resolveCollision, collisionSolve. *)

\* v*0.5f and v/2.0f: exact in the code; the scenes keep v even.
Half(v) == v \div 2

\* AABB aa = { at->x - ac->w/2.0f + ac->offx, at->y - ac->h/2.0f + ac->offy, w, h }
AABB(tr, col) ==
    [x |-> tr.x - Half(col.w) + col.offx, y |-> tr.y - Half(col.h) + col.offy,
     w |-> col.w, h |-> col.h]

\* Touching boxes intersect: every comparison is strict.
aabbIntersect(a, b) ==
    ~(a.x + a.w < b.x \/ b.x + b.w < a.x \/ a.y + a.h < b.y \/ b.y + b.h < a.y)

\* The center-to-center delta and the per-axis overlap of two boxes.
Overlap(aa, bb) ==
    LET dx == (bb.x + Half(bb.w)) - (aa.x + Half(aa.w))
        dy == (bb.y + Half(bb.h)) - (aa.y + Half(aa.h))
    IN [dx |-> dx, dy |-> dy,
        overlapX |-> Half(aa.w + bb.w) - Abs(dx),
        overlapY |-> Half(aa.h + bb.h) - Abs(dy)]

\* The axis test, a variant with <= for <.
Axis_le(o) == IF o.overlapX <= o.overlapY THEN "X" ELSE "Y"

\* if(overlapX < overlapY) resolve in X, else in Y.
Axis(o) == IF o.overlapX < o.overlapY THEN "X" ELSE "Y"

\* The positional correction, a variant whose last branch does not test
\* bc->isStatic.
Corrected_moveStatic(pa, pb, aStatic, bStatic, sign, overlap) ==
    IF ~aStatic /\ ~bStatic
    THEN <<pa - sign * Half(overlap), pb + sign * Half(overlap)>>
    ELSE IF ~aStatic THEN <<pa - sign * overlap, pb>>
    ELSE <<pa, pb + sign * overlap>>

\* The positional correction, a variant that moves the static body of a mixed
\* pair instead of the dynamic one.
Corrected_swapped(pa, pb, aStatic, bStatic, sign, overlap) ==
    IF ~aStatic /\ ~bStatic
    THEN <<pa - sign * Half(overlap), pb + sign * Half(overlap)>>
    ELSE IF ~aStatic THEN <<pa, pb + sign * overlap>>
    ELSE IF ~bStatic THEN <<pa - sign * overlap, pb>>
    ELSE <<pa, pb>>

\* The positional correction, a variant that pushes the bodies towards each
\* other.
Corrected_towards(pa, pb, aStatic, bStatic, sign, overlap) ==
    IF ~aStatic /\ ~bStatic
    THEN <<pa + sign * Half(overlap), pb - sign * Half(overlap)>>
    ELSE IF ~aStatic THEN <<pa + sign * overlap, pb>>
    ELSE IF ~bStatic THEN <<pa, pb - sign * overlap>>
    ELSE <<pa, pb>>

\* The positional correction, a variant that moves only body a of a dynamic
\* pair.
Corrected_onlyA(pa, pb, aStatic, bStatic, sign, overlap) ==
    IF ~aStatic /\ ~bStatic
    THEN <<pa - sign * Half(overlap), pb>>
    ELSE IF ~aStatic THEN <<pa - sign * overlap, pb>>
    ELSE IF ~bStatic THEN <<pa, pb + sign * overlap>>
    ELSE <<pa, pb>>

\* The positional correction along one axis: the coordinates of a and b after it.
Corrected(pa, pb, aStatic, bStatic, sign, overlap) ==
    IF ~aStatic /\ ~bStatic
    THEN <<pa - sign * Half(overlap), pb + sign * Half(overlap)>>
    ELSE IF ~aStatic THEN <<pa - sign * overlap, pb>>
    ELSE IF ~bStatic THEN <<pa, pb + sign * overlap>>
    ELSE <<pa, pb>>

\* The ground flag of body a of a Y resolution, a variant that tests the
\* wrong sign.
GroundA_flipped(sign) == sign < 0

\* if(sign>0) ap->onGround = true;
GroundA(sign) == sign > 0

\* The ground flag of body b of a Y resolution, a variant that never sets it.
GroundB_never(sign) == FALSE

\* if(sign<0) bp->onGround = true;
GroundB(sign) == sign < 0

\* Engine::resolveCollision on the table c; aa and bb are the boxes the caller
\* computed.  Returns the table and what was resolved.
resolveCollision(c, aid, bid, aa, bb) ==
    LET ac == World_get(c, aid, "collider")
        at == World_get(c, aid, "transform")
        ap == World_get(c, aid, "physics")
        bc == World_get(c, bid, "collider")
        bt == World_get(c, bid, "transform")
        bp == World_get(c, bid, "physics")
    IN IF ac = None \/ at = None \/ bc = None \/ bt = None
       THEN [c |-> c, resolved |-> <<>>]
       ELSE
       LET o == Overlap(aa, bb)
       IN IF Axis(o) = "X"
          THEN LET sign == IF o.dx > 0 THEN 1 ELSE -1
                   xs == Corrected(at.x, bt.x, ac.isStatic, bc.isStatic,
                                   sign, o.overlapX)
                   c1 == World_add(c, aid, "transform", [at EXCEPT !.x = xs[1]])
                   c2 == World_add(c1, bid, "transform", [bt EXCEPT !.x = xs[2]])
                   c3 == IF ap # None
                         THEN World_add(c2, aid, "physics", [ap EXCEPT !.vx = 0])
                         ELSE c2
                   c4 == IF bp # None
                         THEN World_add(c3, bid, "physics", [bp EXCEPT !.vx = 0])
                         ELSE c3
               IN [c |-> c4,
                   resolved |-> <<[a |-> aid, b |-> bid, axis |-> "X", o |-> o,
                                   groundA |-> FALSE, groundB |-> FALSE]>>]
          ELSE LET sign == IF o.dy > 0 THEN 1 ELSE -1
                   ys == Corrected(at.y, bt.y, ac.isStatic, bc.isStatic,
                                   sign, o.overlapY)
                   c1 == World_add(c, aid, "transform", [at EXCEPT !.y = ys[1]])
                   c2 == World_add(c1, bid, "transform", [bt EXCEPT !.y = ys[2]])
                   c3 == IF ap # None
                         THEN World_add(c2, aid, "physics",
                                  [ap EXCEPT !.vy = 0,
                                             !.onGround = GroundA(sign) \/ @])
                         ELSE c2
                   c4 == IF bp # None
                         THEN World_add(c3, bid, "physics",
                                  [bp EXCEPT !.vy = 0,
                                             !.onGround = GroundB(sign) \/ @])
                         ELSE c3
               IN [c |-> c4,
                   resolved |-> <<[a |-> aid, b |-> bid, axis |-> "Y", o |-> o,
                                   groundA |-> ap # None /\ GroundA(sign),
                                   groundB |-> bp # None /\ GroundB(sign)]>>]

\* The inner loop of collisionSolve: a = ents[i] against ents[j], ents[j+1], ...
\* with the box aa computed before the loop.  st.tested records every call
\* of aabbIntersect: the boxes it was given, and the transforms the two
\* bodies had in the store at that moment.
RECURSIVE collideInner(_, _, _, _, _)
collideInner(st, ents, i, j, aa) ==
    IF j > Len(ents) THEN st
    ELSE LET bc == World_get(st.c, ents[j], "collider")
             bt == World_get(st.c, ents[j], "transform")
         IN IF bc = None \/ bt = None
            THEN collideInner(st, ents, i, j + 1, aa)
            ELSE LET bb == AABB(bt, bc)
                     t == [a |-> ents[i], b |-> ents[j], aa |-> aa, bb |-> bb,
                           at |-> World_get(st.c, ents[i], "transform"),
                           bt |-> bt, hit |-> aabbIntersect(aa, bb)]
                 IN IF aabbIntersect(aa, bb)
                    THEN LET r == resolveCollision(st.c, ents[i], ents[j], aa, bb)
                         IN collideInner(
                                [c |-> r.c, resolved |-> st.resolved \o r.resolved,
                                 tested |-> Append(st.tested, t)],
                                ents, i, j + 1, aa)
                    ELSE collideInner([st EXCEPT !.tested = Append(@, t)],
                                      ents, i, j + 1, aa)

\* The outer loop of collisionSolve.
RECURSIVE collideOuter(_, _, _)
collideOuter(st, ents, i) ==
    IF i > Len(ents) THEN st
    ELSE LET ac == World_get(st.c, ents[i], "collider")
             at == World_get(st.c, ents[i], "transform")
         IN IF ac = None \/ at = None
            THEN collideOuter(st, ents, i + 1)
            ELSE collideOuter(collideInner(st, ents, i, i + 1, AABB(at, ac)),
                              ents, i + 1)

\* Engine::collisionSolve: one pass over all pairs in store order.
collisionSolve(c, ents) ==
    collideOuter([c |-> c, resolved |-> <<>>, tested |-> <<>>], ents, 1)

-----------------------------------------------------------------------------
(* SpecResolve: one collision pass over a world of two bodies, for every    *)
(* placement, size, static flag and presence of Physics.                    *)

\* Collider::w = 16, h = 16 by default.
DefaultSize == 16

\* The sizes of body 2.
PairSizes == {<<16, 16>>, <<32, 16>>}

\* The offsets of body 2's center from body 1's, per axis.
PairOffsets == {-16, -8, 0, 8, 16, 24}

\* The Physics of a body of the pair: moving on both axes, not on the ground.
PairPhysics == Physics(3, 5, FALSE)

PairWorld(dx, dy, size, aStatic, bStatic, aPhys, bPhys) ==
    LET c1 == World_add(EmptyFn, 1, "transform", Transform(0, 0))
        c2 == World_add(c1, 1, "collider",
                        Collider(DefaultSize, DefaultSize, aStatic))
        c3 == IF aPhys THEN World_add(c2, 1, "physics", PairPhysics) ELSE c2
        c4 == World_add(c3, 2, "transform", Transform(dx, dy))
        c5 == World_add(c4, 2, "collider", Collider(size[1], size[2], bStatic))
    IN IF bPhys THEN World_add(c5, 2, "physics", PairPhysics) ELSE c5

InitResolve ==
    /\ nextId = 3
    /\ entities = <<1, 2>>
    /\ \E dx \in PairOffsets, dy \in PairOffsets, size \in PairSizes,
          aStatic \in BOOLEAN, bStatic \in BOOLEAN,
          aPhys \in BOOLEAN, bPhys \in BOOLEAN :
          components = PairWorld(dx, dy, size, aStatic, bStatic, aPhys, bPhys)
    /\ pool = <<>>
    /\ pc = "pass"
    /\ IdleEngine
    /\ IdleHistory
    /\ IdleSys

CollisionPass ==
    /\ pc = "pass"
    /\ LET r == collisionSolve(components, entities)
       IN /\ components' = r.c
          /\ prev' = [op |-> "pass", comps |-> components,
                      resolved |-> r.resolved, tested |-> r.tested]
    /\ pc' = "passed"
    /\ UNCHANGED <<nextId, entities, pool, running, quit, keys, accumulator,
                   frameTime, camX, camY, issued, killed, log, steps, frames>>
    /\ UNCHANGED sysVars
    /\ UNCHANGED clockVars

NextResolve == CollisionPass

SpecResolve == InitResolve /\ [][NextResolve]_vars

\* The pair (1, 2) of the world c, as the claims speak of it.
PairBox(c, id) == AABB(World_get(c, id, "transform"), World_get(c, id, "collider"))

PairIntersects(c) == aabbIntersect(PairBox(c, 1), PairBox(c, 2))

PairOverlap(c) == Overlap(PairBox(c, 1), PairBox(c, 2))

PairStatic(c, id) == World_get(c, id, "collider").isStatic

HasPhysics(c, id) == World_get(c, id, "physics") # None

\* Component field f of name n is the same for body id in c and d.
SameField(c, d, id, n, f) ==
    World_get(c, id, n) # None => World_get(d, id, n)[f] = World_get(c, id, n)[f]

\* The pass has resolved an intersecting pair whose overlaps are equal.
TiePassed ==
    /\ prev.op = "pass"
    /\ PairIntersects(prev.comps)
    /\ PairOverlap(prev.comps).overlapX = PairOverlap(prev.comps).overlapY

(* C1 (as stated): an intersecting pair whose X overlap equals its Y        *)
(* overlap is resolved along X: vx zeroed and the X overlap removed, while  *)
(* y, vy and onGround stay as they were.                                    *)
C1_TieResolvesX ==
    TiePassed =>
        /\ \A id \in {1, 2} :
              /\ SameField(prev.comps, components, id, "transform", "y")
              /\ SameField(prev.comps, components, id, "physics", "vy")
              /\ SameField(prev.comps, components, id, "physics", "onGround")
              /\ HasPhysics(components, id) =>
                    World_get(components, id, "physics").vx = 0
        /\ ~(PairStatic(prev.comps, 1) /\ PairStatic(prev.comps, 2)) =>
              PairOverlap(components).overlapX = 0

(* C1 (amended): an intersecting pair whose X overlap equals its Y overlap  *)
(* is resolved along Y: vy zeroed on each body with Physics, the Y overlap  *)
(* removed unless both are static, onGround set on body 1 when body 2's     *)
(* center is below (dy > 0) and on body 2 otherwise, while x and vx stay as *)
(* they were.                                                               *)
C1_TieResolvesY ==
    TiePassed =>
        /\ \A id \in {1, 2} :
              /\ SameField(prev.comps, components, id, "transform", "x")
              /\ SameField(prev.comps, components, id, "physics", "vx")
              /\ HasPhysics(components, id) =>
                    World_get(components, id, "physics").vy = 0
        /\ ~(PairStatic(prev.comps, 1) /\ PairStatic(prev.comps, 2)) =>
              PairOverlap(components).overlapY = 0
        /\ HasPhysics(components, 1) =>
              World_get(components, 1, "physics").onGround
                 = (PairOverlap(prev.comps).dy > 0)
        /\ HasPhysics(components, 2) =>
              World_get(components, 2, "physics").onGround
                 = ~(PairOverlap(prev.comps).dy > 0)

\* A tie with a positive overlap between two moving dynamic bodies was resolved.
C1_Witness ==
    /\ TiePassed
    /\ PairOverlap(prev.comps).overlapX > 0
    /\ ~PairStatic(prev.comps, 1) /\ ~PairStatic(prev.comps, 2)
    /\ HasPhysics(prev.comps, 1) /\ HasPhysics(prev.comps, 2)
    /\ World_get(components, 1, "transform").y
          # World_get(prev.comps, 1, "transform").y

\* The pass has resolved an intersecting pair of two static bodies.
StaticPairPassed ==
    /\ prev.op = "pass"
    /\ PairIntersects(prev.comps)
    /\ PairStatic(prev.comps, 1) /\ PairStatic(prev.comps, 2)

(* C10: for an intersecting pair of two static colliders neither transform  *)
(* position changes, and the velocity along the chosen axis (vx when the X  *)
(* overlap is the smaller, vy otherwise) is zeroed on each body that has    *)
(* Physics, the other component staying as it was.                          *)
C10_StaticPair ==
    StaticPairPassed =>
        \A id \in {1, 2} :
           /\ World_get(components, id, "transform")
                 = World_get(prev.comps, id, "transform")
           /\ HasPhysics(components, id) =>
                 IF PairOverlap(prev.comps).overlapX
                       < PairOverlap(prev.comps).overlapY
                 THEN /\ World_get(components, id, "physics").vx = 0
                      /\ SameField(prev.comps, components, id, "physics", "vy")
                 ELSE /\ World_get(components, id, "physics").vy = 0
                      /\ SameField(prev.comps, components, id, "physics", "vx")

\* A static pair with Physics on both bodies was resolved along X.
C10_Witness ==
    /\ StaticPairPassed
    /\ HasPhysics(prev.comps, 1) /\ HasPhysics(prev.comps, 2)
    /\ PairOverlap(prev.comps).overlapX < PairOverlap(prev.comps).overlapY
    /\ World_get(prev.comps, 1, "physics").vx # 0
    /\ World_get(components, 1, "physics").vx = 0
    /\ World_get(components, 2, "physics").vx = 0

\* The pass has resolved an intersecting pair.
PairPassed == prev.op = "pass" /\ PairIntersects(prev.comps)

\* Both bodies of the pair are static.
BothStatic(c) == PairStatic(c, 1) /\ PairStatic(c, 2)

\* The overlap of the pair in the world c along an axis.
OverlapAlong(c, axis) ==
    IF axis = "X" THEN PairOverlap(c).overlapX ELSE PairOverlap(c).overlapY

(* C11: in a world whose only intersecting pair has a non-static body, one  *)
(* collision pass resolves the pair once and leaves its two boxes with zero *)
(* penetration depth along the resolved axis, so they no longer overlap     *)
(* with positive depth, whatever the overlap was.                           *)
C11_SeparatedAfterPass ==
    (PairPassed /\ ~BothStatic(prev.comps)) =>
        /\ Len(prev.resolved) = 1
        /\ OverlapAlong(components, prev.resolved[1].axis) = 0
        /\ ~(PairOverlap(components).overlapX > 0
              /\ PairOverlap(components).overlapY > 0)

\* Two dynamic bodies that penetrated each other on both axes, less on X,
\* were resolved along X and now touch.
C11_Witness ==
    /\ PairPassed
    /\ ~PairStatic(prev.comps, 1) /\ ~PairStatic(prev.comps, 2)
    /\ PairOverlap(prev.comps).overlapX > 0
    /\ PairOverlap(prev.comps).overlapX < PairOverlap(prev.comps).overlapY
    /\ prev.resolved[1].axis = "X"
    /\ PairOverlap(components).overlapX = 0

\* The coordinate of body id along an axis in the world c.
Coord(c, id, axis) ==
    IF axis = "X" THEN World_get(c, id, "transform").x
    ELSE World_get(c, id, "transform").y

\* The axis that is not the given one.
OtherAxis(axis) == IF axis = "X" THEN "Y" ELSE "X"

(* C18: an intersecting pair resolved along an axis with overlap d: when    *)
(* both bodies are non-static each is displaced by exactly d/2 along that   *)
(* axis, in opposite directions and away from the other (the sum of their   *)
(* coordinates stays, their distance grows by d); when exactly one is       *)
(* static it stays and the other is displaced by exactly d away from it;    *)
(* the coordinate on the other axis is unchanged for both.                  *)
C18_CorrectionAmounts ==
    PairPassed =>
        LET axis == prev.resolved[1].axis
            d == OverlapAlong(prev.comps, axis)
            a0 == Coord(prev.comps, 1, axis)
            b0 == Coord(prev.comps, 2, axis)
            a1 == Coord(components, 1, axis)
            b1 == Coord(components, 2, axis)
            aStatic == PairStatic(prev.comps, 1)
            bStatic == PairStatic(prev.comps, 2)
        IN /\ \A id \in {1, 2} :
                 Coord(components, id, OtherAxis(axis))
                    = Coord(prev.comps, id, OtherAxis(axis))
           /\ (~aStatic /\ ~bStatic) =>
                 /\ 2 * Abs(a1 - a0) = d
                 /\ 2 * Abs(b1 - b0) = d
                 /\ a1 + b1 = a0 + b0
                 /\ Abs(b1 - a1) = Abs(b0 - a0) + d
           /\ (aStatic /\ ~bStatic) =>
                 /\ a1 = a0
                 /\ Abs(b1 - b0) = d
                 /\ Abs(b1 - a1) = Abs(b0 - a0) + d
           /\ (~aStatic /\ bStatic) =>
                 /\ b1 = b0
                 /\ Abs(a1 - a0) = d
                 /\ Abs(b1 - a1) = Abs(b0 - a0) + d

\* Two dynamic bodies with a positive overlap were resolved along Y, and
\* body 1 has moved by half of it.
C18_Witness ==
    /\ PairPassed
    /\ ~PairStatic(prev.comps, 1) /\ ~PairStatic(prev.comps, 2)
    /\ prev.resolved[1].axis = "Y"
    /\ PairOverlap(prev.comps).overlapY > 0
    /\ 2 * Abs(Coord(components, 1, "Y") - Coord(prev.comps, 1, "Y"))
          = PairOverlap(prev.comps).overlapY

\* The Physics of body id in the world c.
Phys(c, id) == World_get(c, id, "physics")

(* C20 (as stated): an X-axis resolution zeroes vx of each body with        *)
(* Physics and leaves vy and onGround of both as they were; a Y-axis        *)
(* resolution zeroes vy, leaves vx, and sets onGround on body A only when   *)
(* dy > 0 and on body B only when dy < 0, so that with dy = 0 neither flag  *)
(* is set (the bodies start with onGround = false).                         *)
C20_GroundStrict ==
    PairPassed =>
        \A id \in {1, 2} :
           HasPhysics(prev.comps, id) =>
              IF prev.resolved[1].axis = "X"
              THEN /\ Phys(components, id).vx = 0
                   /\ Phys(components, id).vy = Phys(prev.comps, id).vy
                   /\ Phys(components, id).onGround
                         = Phys(prev.comps, id).onGround
              ELSE /\ Phys(components, id).vy = 0
                   /\ Phys(components, id).vx = Phys(prev.comps, id).vx
                   /\ Phys(components, id).onGround
                         = IF id = 1 THEN PairOverlap(prev.comps).dy > 0
                           ELSE PairOverlap(prev.comps).dy < 0

(* C20 (amended): the same, except that a Y-axis resolution sets onGround   *)
(* on body B whenever B's center is not below A's (dy <= 0): the sign of    *)
(* the correction is dy > 0 ? 1 : -1, so with dy = 0 body B is pushed up,   *)
(* body A down, and the flag of B is set; exactly one of the two flags is   *)
(* set by every Y-axis resolution of two bodies with Physics.               *)
C20_GroundBySign ==
    PairPassed =>
        \A id \in {1, 2} :
           HasPhysics(prev.comps, id) =>
              IF prev.resolved[1].axis = "X"
              THEN /\ Phys(components, id).vx = 0
                   /\ Phys(components, id).vy = Phys(prev.comps, id).vy
                   /\ Phys(components, id).onGround
                         = Phys(prev.comps, id).onGround
              ELSE /\ Phys(components, id).vy = 0
                   /\ Phys(components, id).vx = Phys(prev.comps, id).vx
                   /\ Phys(components, id).onGround
                         = IF id = 1 THEN PairOverlap(prev.comps).dy > 0
                           ELSE PairOverlap(prev.comps).dy <= 0

\* Two dynamic bodies with Physics whose centers were level (dy = 0) were
\* resolved along Y: body B was pushed up and has its flag set, body A not.
C20_Witness ==
    /\ PairPassed
    /\ HasPhysics(prev.comps, 1) /\ HasPhysics(prev.comps, 2)
    /\ ~PairStatic(prev.comps, 1) /\ ~PairStatic(prev.comps, 2)
    /\ prev.resolved[1].axis = "Y"
    /\ PairOverlap(prev.comps).dy = 0
    /\ Coord(components, 2, "Y") < Coord(prev.comps, 2, "Y")
    /\ Phys(components, 2).onGround
    /\ ~Phys(components, 1).onGround

-----------------------------------------------------------------------------
(* Engine: the systems of fixedUpdate, computeCamera, run. *)

\* const double fixedDt = 1.0/60.0, in 1/600 s.
FixedDt == 10

\* const double maxAccum = 0.25, in 1/600 s.
MaxAccum == 150

\* Engine e(1280, 720, ...): screenW and screenH in quarter pixels.
ScreenW == 5120

ScreenH == 2880

\* One unit of velocity (a quarter pixel per step) in px/s.
PxPerSecond == 15

\* float speed = 240.0f (px/s) of the player script, in quarter pixels per step.
PlayerSpeed == 16

\* ph->vy = -420.0f (px/s) of the player script, in quarter pixels per step.
JumpVelocity == -28

\* dt = 1/60 s of the animation timer, in 1/60000 s.
AnimDt == 1000

\* Animation::frameTime = 0.1f by default: 0.100000001490116 s, in 1/60000 s
\* rounded up.
FrameTimeDefault == 6001

\* spr->anim.frameTime = 0.12f when moving: 0.119999997317791 s, in 1/60000 s
\* rounded up.
FrameTimeMoving == 7200

\* spr->anim.frameTime = 0.4f when idle: 0.400000005960464 s, in 1/60000 s
\* rounded up.
FrameTimeIdle == 24001

\* The jump test of the player script: (SPACE or W down) && ph->onGround,
\* past the early return on a missing transform or physics.
jumps(c, pid, down) ==
    /\ World_get(c, pid, "transform") # None
    /\ World_get(c, pid, "physics") # None
    /\ "SPACE" \in down \/ "W" \in down
    /\ World_get(c, pid, "physics").onGround

\* The onUpdate lambda of the player (createDemoScene); input holds the keys
\* down.  The sound it plays on a jump is the action's part (see Scripts).
playerUpdate(c, pid, down) ==
    LET tr == World_get(c, pid, "transform")
        ph == World_get(c, pid, "physics")
        spr == World_get(c, pid, "sprite")
    IN IF tr = None \/ ph = None THEN c
       ELSE LET left == "LEFT" \in down \/ "A" \in down
                right == "RIGHT" \in down \/ "D" \in down
                vx1 == IF left THEN -PlayerSpeed
                       ELSE IF right THEN PlayerSpeed ELSE 0
                jump == jumps(c, pid, down)
                ph1 == [ph EXCEPT !.vx = vx1,
                                  !.vy = IF jump THEN JumpVelocity ELSE @,
                                  !.onGround = IF jump THEN FALSE ELSE @]
                c1 == World_add(c, pid, "physics", ph1)
            IN IF spr = None THEN c1
               ELSE World_add(c1, pid, "sprite",
                        [spr EXCEPT !.frameTime =
                            IF Abs(vx1) * PxPerSecond > 1 THEN FrameTimeMoving
                            ELSE FrameTimeIdle])

\* sc->onUpdate(id, dt) for the lambdas of the source: the player's, and the
\* empty one of the collectibles.
callScript(c, id, sc, down) ==
    IF sc.onUpdate = "player" THEN playerUpdate(c, id, down) ELSE c

\* Whether fixedUpdate calls the script of id: if(sc && sc->onUpdate).
HasUpdate(c, id) ==
    LET sc == World_get(c, id, "script")
    IN sc # None /\ sc.onUpdate # "null"

\* The script loop of fixedUpdate: the table after it and the ids called, in order.
RECURSIVE runScripts(_, _, _, _)
runScripts(st, ents, i, down) ==
    IF i > Len(ents) THEN st
    ELSE IF HasUpdate(st.c, ents[i])
         THEN runScripts(
                 [c |-> callScript(st.c, ents[i],
                                   World_get(st.c, ents[i], "script"), down),
                  ids |-> Append(st.ids, ents[i])],
                 ents, i + 1, down)
         ELSE runScripts(st, ents, i + 1, down)

\* The integration loop of fixedUpdate, for dt of one fixed step.
RECURSIVE integrate(_, _, _)
integrate(c, ents, i) ==
    IF i > Len(ents) THEN c
    ELSE LET ph == World_get(c, ents[i], "physics")
             tr == World_get(c, ents[i], "transform")
         IN IF ph # None /\ tr # None
            THEN LET vy1 == ph.vy + ph.gravity + ph.ay
                     vx1 == ph.vx + ph.ax
                     c1 == World_add(c, ents[i], "physics",
                                     [ph EXCEPT !.vx = vx1, !.vy = vy1])
                     c2 == World_add(c1, ents[i], "transform",
                                     [tr EXCEPT !.x = tr.x + vx1, !.y = tr.y + vy1])
                 IN integrate(c2, ents, i + 1)
            ELSE integrate(c, ents, i + 1)

\* The step of one animation, a variant that carries the excess of the timer
\* over to the next frame.
advance_carry(an) ==
    LET t1 == an.timer + AnimDt
    IN IF t1 >= an.frameTime
       THEN [an EXCEPT !.timer = t1 - an.frameTime,
                       !.current = (an.current + 1) % Max(1, an.frameCount)]
       ELSE [an EXCEPT !.timer = t1]

\* The step of one animation, a variant without the modulo.
advance_unbounded(an) ==
    LET t1 == an.timer + AnimDt
    IN IF t1 >= an.frameTime
       THEN [an EXCEPT !.timer = 0, !.current = an.current + 1]
       ELSE [an EXCEPT !.timer = t1]

\* The step of one animation: timer += dt; if(timer >= frameTime){ timer = 0;
\* current = (current + 1) % max(1, frameCount); }
advance(an) ==
    LET t1 == an.timer + AnimDt
    IN IF t1 >= an.frameTime
       THEN [an EXCEPT !.timer = 0,
                       !.current = (an.current + 1) % Max(1, an.frameCount)]
       ELSE [an EXCEPT !.timer = t1]

\* The animation loop of fixedUpdate, for dt of one fixed step.  The loop
\* casts whatever is stored under "sprite" to AnimatedSprite; the scenes of
\* the model store only AnimatedSprite there.
RECURSIVE animate(_, _, _)
animate(c, ents, i) ==
    IF i > Len(ents) THEN c
    ELSE LET an == World_get(c, ents[i], "sprite")
         IN IF an # None
            THEN animate(World_add(c, ents[i], "sprite", advance(an)),
                         ents, i + 1)
            ELSE animate(c, ents, i + 1)

\* The five systems of fixedUpdate, a variant that solves collisions before
\* it integrates.
Systems_collisionFirst ==
    <<"scripts", "collision", "physics", "animations", "particles">>

\* The five systems of fixedUpdate, in the order of its statements.
Systems == <<"scripts", "physics", "collision", "animations", "particles">>

\* The system that follows system p within a fixed update.
After(p) == Systems[(CHOOSE i \in DOMAIN Systems : Systems[i] = p) + 1]

\* The quit test, a variant that leaves running alone.
QuitTest_ignored(q, run) == run

\* if(input.quit) running=false;
QuitTest(q, run) == IF q THEN FALSE ELSE run

\* The loop test, a variant with > for >=.
LoopTarget_gt(acc) == IF acc > FixedDt THEN Systems[1] ELSE "render"

\* The accumulator clamp, a variant without it.
Clamp_none(acc) == acc

\* if(accumulator > maxAccum) accumulator = maxAccum;
Clamp(acc) == IF acc > MaxAccum THEN MaxAccum ELSE acc

\* while(accumulator >= fixedDt) fixedUpdate ... ; render();
LoopTarget(acc) == IF acc >= FixedDt THEN Systems[1] ELSE "render"

\* The smoothing step, a variant with the factor 0.5.
Lerp_half(cam, target) == cam + (target - cam) \div 2

\* cam += (target - cam) * 0.12f, rounded down to a quarter pixel.
Lerp(cam, target) == cam + ((target - cam) * 12) \div 100

\* The entities computeCamera can follow: those with Physics and Transform.
Trackable(c, ents) ==
    {i \in DOMAIN ents : /\ World_get(c, ents[i], "physics") # None
                         /\ World_get(c, ents[i], "transform") # None}

\* The target of computeCamera: the first trackable entity, centered.
Target(c, ents) ==
    LET i == CHOOSE k \in Trackable(c, ents) :
                \A m \in Trackable(c, ents) : k <= m
        tr == World_get(c, ents[i], "transform")
    IN <<tr.x - Half(ScreenW), tr.y - Half(ScreenH)>>

\* Engine::computeCamera: the camera after it.
computeCamera(cx, cy, c, ents) ==
    IF Trackable(c, ents) = {} THEN <<cx, cy>>
    ELSE <<Lerp(cx, Target(c, ents)[1]), Lerp(cy, Target(c, ents)[2])>>

-----------------------------------------------------------------------------
(* InputMap, ResourceManager, AudioManager, and the orders of Engine::init  *)
(* and Engine::cleanup.                                                     *)

\* InputState::down: the key is in the map and its entry is true.
InputState_down(ks, key) == key \in ks

\* InputMap::bind: map[action] = key.
InputMap_bind(map, action, key) == FnPut(map, action, key)

\* InputMap::actionDown: false without an entry, else the state of its key.
InputMap_actionDown(map, ks, action) ==
    IF action \notin DOMAIN map THEN FALSE
    ELSE InputState_down(ks, map[action])

\* The history of bind: the key joins the keys bound to the action.
Bound_add(b, action, key) ==
    FnPut(b, action, (IF action \in DOMAIN b THEN b[action] ELSE {}) \cup {key})

\* The bind calls of Engine::init, in order.
InitBindings ==
    <<<<"left", "A">>, <<"left", "LEFT">>, <<"right", "D">>,
      <<"right", "RIGHT">>, <<"jump", "SPACE">>>>

\* A sequence of bind calls applied to a map, by the operator f.
RECURSIVE bindAll(_, _, _)
bindAll(f(_, _, _), map, calls) ==
    IF calls = <<>> THEN map
    ELSE bindAll(f, f(map, Head(calls)[1], Head(calls)[2]), Tail(calls))

\* struct Sound after a load: music set for a music load, chunk otherwise.
Sound(music) == [kind |-> "sound", music |-> music, chunk |-> ~music]

\* ResourceManager::loadTexture: the ids loaded after it; ok is whether
\* IMG_Load and SDL_CreateTextureFromSurface succeed.
loadTexture(texs, id, ok) ==
    IF id \in texs THEN texs ELSE IF ok THEN texs \cup {id} ELSE texs

\* ResourceManager::loadSound, a variant without the audioEnabled test.
loadSound_unmuted(enabled, snds, id, music, ok) ==
    IF id \in DOMAIN snds THEN [sounds |-> snds, result |-> snds[id]]
    ELSE IF ~ok THEN [sounds |-> snds, result |-> None]
    ELSE [sounds |-> FnPut(snds, id, Sound(music)), result |-> Sound(music)]

\* ResourceManager::loadSound: the map after it and the pointer returned;
\* enabled is audioEnabled, ok is whether Mix_LoadMUS / Mix_LoadWAV succeeds.
loadSound(enabled, snds, id, music, ok) ==
    IF ~enabled THEN [sounds |-> snds, result |-> None]
    ELSE IF id \in DOMAIN snds THEN [sounds |-> snds, result |-> snds[id]]
    ELSE IF ~ok THEN [sounds |-> snds, result |-> None]
    ELSE [sounds |-> FnPut(snds, id, Sound(music)), result |-> Sound(music)]

\* ResourceManager::getSound.
getSound(snds, id) == IF id \in DOMAIN snds THEN snds[id] ELSE None

\* AudioManager::playSound: whether it reaches Mix_PlayChannel.
playSound(s) == s # None /\ s.chunk

\* AudioManager::playMusic: whether it reaches Mix_PlayMusic.
playMusic(s) == s # None /\ s.music

\* The entities whose player script jumps in a fixed update under the keys
\* down; each plays the sound "jump" when it is loaded.
Jumpers(c, ents, down) ==
    {id \in Range(ents) :
        /\ HasUpdate(c, id)
        /\ World_get(c, id, "script").onUpdate = "player"
        /\ jumps(c, id, down)}

\* What a successful Engine::init has acquired, in order: SDL, SDL_image, the
\* audio device when Mix_OpenAudio succeeds, the window, the renderer, and the
\* four subsystems.
InitAcquired(audioOk) ==
    <<"sdl", "img">> \o (IF audioOk THEN <<"mixer">> ELSE <<>>)
       \o <<"window", "renderer", "resources", "world", "audio", "particles">>

\* The statements of Engine::cleanup, reversed for the subsystems: a variant.
CleanupOrder_reverse ==
    <<"particles", "audio", "world", "resources", "renderer", "window",
      "mixer", "img", "sdl">>

\* The statements of Engine::cleanup, in order: the four resets, the renderer,
\* the window, Mix_CloseAudio, IMG_Quit, SDL_Quit.
CleanupOrder ==
    <<"resources", "world", "audio", "particles", "renderer", "window",
      "mixer", "img", "sdl">>

\* The orders in which clear() can destroy the elements of an unordered_map.
Orders(S) == {q \in [1..Cardinality(S) -> S] : Range(q) = S}

\* What cleanup releases for one of its statements: resources.reset() runs
\* ~ResourceManager, which clears the textures, then the sounds; ts and ss
\* are the orders the two maps are cleared in.
Releases(what, ts, ss) ==
    IF what = "resources" THEN ts \o ss \o <<"resources">> ELSE <<what>>

\* Engine::cleanup: everything it releases, in order.
RECURSIVE cleanup(_, _, _)
cleanup(order, ts, ss) ==
    IF order = <<>> THEN <<>>
    ELSE Releases(Head(order), ts, ss) \o cleanup(Tail(order), ts, ss)

-----------------------------------------------------------------------------
(* Spec: Engine::run over a scene of a floor, a body and a collectible.     *)

\* The frame durations (now - lastTime), in 1/600 s: none, one step, two and
\* a half steps, 0.5 s.
FrameTimes == {0, 10, 25, 300}

\* The keys input.update() can leave down.
KeySets == {{}, {"D"}, {"SPACE"}}

\* Where the scenes put the body: the camera target is (100, 100) px there.
BodyX == 2960

BodyY == 1840

\* The gap between the body's bottom and the floor's top, in quarter pixels.
Drops == {0, 3, 12}

\* The floor's center relative to the body's, on X: under it, and overlapping
\* it by half a pixel.
FloorOffsets == {0, 62}

\* The collectible's distance from the body on X: out of its reach.
CollectibleOffset == 4000

\* The scene, built as createDemoScene builds its own: create, then add.
floorEntity(w, drop, xoff) ==
    LET r == World_create(w.nextId, w.entities)
        c1 == World_add(w.c, r.id, "transform",
                  Transform(BodyX + xoff, BodyY + DefaultSize * 4 + drop))
        c2 == World_add(c1, r.id, "collider",
                  Collider(DefaultSize * 4, DefaultSize * 4, TRUE))
    IN [nextId |-> r.nextId, entities |-> r.entities, c |-> c2]

bodyEntity(w, script) ==
    LET r == World_create(w.nextId, w.entities)
        c1 == World_add(w.c, r.id, "transform", Transform(BodyX, BodyY))
        c2 == World_add(c1, r.id, "sprite", AnimatedSprite(4, FrameTimeMoving))
        c3 == World_add(c2, r.id, "physics", Physics(0, 0, FALSE))
        c4 == World_add(c3, r.id, "collider",
                  Collider(DefaultSize * 4, DefaultSize * 4, FALSE))
        c5 == IF script THEN World_add(c4, r.id, "script", Script("player"))
              ELSE c4
    IN [nextId |-> r.nextId, entities |-> r.entities, c |-> c5]

collectibleEntity(w) ==
    LET r == World_create(w.nextId, w.entities)
        c1 == World_add(w.c, r.id, "transform",
                  Transform(BodyX + CollectibleOffset, BodyY))
        c2 == World_add(c1, r.id, "collider",
                  Collider(DefaultSize * 4, DefaultSize * 4, FALSE))
        c3 == World_add(c2, r.id, "script", Script("noop"))
    IN [nextId |-> r.nextId, entities |-> r.entities, c |-> c3]

Scene(floorFirst, script, drop, xoff) ==
    LET w0 == [nextId |-> 1, entities |-> <<>>, c |-> EmptyFn]
    IN IF floorFirst
       THEN collectibleEntity(bodyEntity(floorEntity(w0, drop, xoff), script))
       ELSE collectibleEntity(floorEntity(bodyEntity(w0, script), drop, xoff))

Init ==
    /\ \E floorFirst \in BOOLEAN, script \in BOOLEAN, drop \in Drops,
          xoff \in FloorOffsets :
          LET w == Scene(floorFirst, script, drop, xoff)
          IN /\ nextId = w.nextId
             /\ entities = w.entities
             /\ components = w.c
    /\ pool = NewPool(PoolSize)
    /\ pc = "poll"
    /\ running = TRUE
    /\ quit = FALSE
    /\ keys = {}
    /\ accumulator = 0
    /\ frameTime = 0
    /\ camX = 0
    /\ camY = 0
    /\ IdleHistory
    /\ audioAvailable = TRUE
    /\ textures = {}
    /\ sounds = EmptyFn
    /\ inputMap = bindAll(InputMap_bind, EmptyFn, InitBindings)
    /\ acquired = InitAcquired(TRUE)
    /\ released = <<>>
    /\ played = {}
    /\ bound = bindAll(Bound_add, EmptyFn, InitBindings)

\* One pass of the while(running) body up to the fixed-update loop:
\* input.update(), the quit test, the frame time, the accumulator and its clamp.
Poll ==
    /\ pc = "poll"
    /\ frames < MaxFrames
    /\ \E q \in BOOLEAN, ks \in KeySets, ft \in FrameTimes :
          /\ quit' = (quit \/ q)
          /\ keys' = ks
          /\ running' = QuitTest(quit', running)
          /\ frameTime' = ft
          /\ accumulator' = Clamp(accumulator + ft)
    /\ pc' = LoopTarget(accumulator')
    /\ steps' = 0
    /\ frames' = frames + 1
    /\ prev' = [op |-> "poll", acc |-> accumulator]
    /\ UNCHANGED <<worldVars, pool, camX, camY, issued, killed, log>>
    /\ UNCHANGED sysVars
    /\ elapsed' = elapsed + frameTime'
    /\ simulated' = simulated

\* fixedUpdate, system 1: the script callbacks.
Scripts ==
    /\ pc = "scripts"
    /\ LET r == runScripts([c |-> components, ids |-> <<>>], entities, 1, keys)
       IN /\ components' = r.c
          /\ log' = <<[ev |-> "scripts", ids |-> r.ids, dt |-> FixedDt]>>
    /\ played' = IF /\ Jumpers(components, entities, keys) # {}
                    /\ playSound(getSound(sounds, "jump"))
                 THEN played \cup {"jump"} ELSE played
    /\ pc' = After("scripts")
    /\ UNCHANGED <<nextId, entities, pool, running, quit, keys, accumulator,
                   frameTime, camX, camY, issued, killed, prev, steps, frames>>
    /\ UNCHANGED <<audioAvailable, textures, sounds, inputMap, acquired,
                   released, bound>>
    /\ UNCHANGED clockVars

\* fixedUpdate, system 2: physics integration.
Integrate ==
    /\ pc = "physics"
    /\ components' = integrate(components, entities, 1)
    /\ log' = Append(log, [ev |-> "physics"])
    /\ pc' = After("physics")
    /\ UNCHANGED <<nextId, entities, pool, running, quit, keys, accumulator,
                   frameTime, camX, camY, issued, killed, prev, steps, frames>>
    /\ UNCHANGED sysVars
    /\ UNCHANGED clockVars

\* fixedUpdate, system 3: the collision pass.
Collide ==
    /\ pc = "collision"
    /\ LET r == collisionSolve(components, entities)
       IN /\ components' = r.c
          /\ log' = Append(log, [ev |-> "collision", resolved |-> r.resolved])
    /\ pc' = After("collision")
    /\ UNCHANGED <<nextId, entities, pool, running, quit, keys, accumulator,
                   frameTime, camX, camY, issued, killed, prev, steps, frames>>
    /\ UNCHANGED sysVars
    /\ UNCHANGED clockVars

\* fixedUpdate, system 4: the animations.
Animate ==
    /\ pc = "animations"
    /\ components' = animate(components, entities, 1)
    /\ log' = Append(log, [ev |-> "animations"])
    /\ pc' = After("animations")
    /\ UNCHANGED <<nextId, entities, pool, running, quit, keys, accumulator,
                   frameTime, camX, camY, issued, killed, prev, steps, frames>>
    /\ UNCHANGED sysVars
    /\ UNCHANGED clockVars

\* fixedUpdate, system 5: the particle pool; then accumulator -= fixedDt and
\* the loop test.
Particles ==
    /\ pc = "particles"
    /\ pool' = update(pool, 1)
    /\ log' = Append(log, [ev |-> "particles"])
    /\ accumulator' = accumulator - FixedDt
    /\ steps' = steps + 1
    /\ pc' = LoopTarget(accumulator')
    /\ UNCHANGED <<worldVars, running, quit, keys, frameTime, camX, camY,
                   issued, killed, prev, frames>>
    /\ UNCHANGED sysVars
    /\ simulated' = simulated + 1
    /\ elapsed' = elapsed

\* render(): computeCamera, then the draw calls; then the while(running) test.
Render ==
    /\ pc = "render"
    /\ LET cam == computeCamera(camX, camY, components, entities)
       IN /\ camX' = cam[1]
          /\ camY' = cam[2]
    /\ prev' = [op |-> "render", camX |-> camX, camY |-> camY]
    /\ pc' = IF running THEN "poll" ELSE "cleanup"
    /\ UNCHANGED <<worldVars, pool, running, quit, keys, accumulator, frameTime,
                   issued, killed, log, steps, frames>>
    /\ UNCHANGED sysVars
    /\ UNCHANGED clockVars

\* cleanup(), once the loop has ended: every release of it, in order.
Cleanup ==
    /\ pc = "cleanup"
    /\ entities' = <<>>
    /\ components' = EmptyFn
    /\ pool' = <<>>
    /\ \E ts \in Orders(textures), ss \in Orders(DOMAIN sounds) :
          released' = released \o cleanup(CleanupOrder, ts, ss)
    /\ textures' = {}
    /\ sounds' = EmptyFn
    /\ pc' = "done"
    /\ UNCHANGED <<nextId, running, quit, keys, accumulator, frameTime, camX,
                   camY, issued, killed, prev, log, steps, frames>>
    /\ UNCHANGED <<audioAvailable, inputMap, acquired, played, bound>>
    /\ UNCHANGED clockVars

Next ==
    \/ Poll
    \/ Scripts
    \/ Integrate
    \/ Collide
    \/ Animate
    \/ Particles
    \/ Render
    \/ Cleanup

Spec == Init /\ [][Next]_vars

-----------------------------------------------------------------------------
(* SpecMain: main() from its first statement: Engine::init with each of its *)
(* failures, loadDefaultAssets with assets present or missing, a further    *)
(* loadSound, createDemoScene, run, cleanup.                                *)

\* The texture files that are present: none, or all three.
TextureLoads == {{}, {"player", "tiles", "font"}}

\* The textures loadDefaultAssets asks for, in order.
DefaultTextures == <<"player", "tiles", "font">>

\* The loadTexture calls of loadDefaultAssets: the ids loaded after them and
\* the ids newly loaded, in order; present are the files that load.
RECURSIVE loadTextures(_, _, _)
loadTextures(st, ids, present) ==
    IF ids = <<>> THEN st
    ELSE LET t == loadTexture(st.textures, Head(ids), Head(ids) \in present)
         IN loadTextures(
               [textures |-> t,
                new |-> IF t # st.textures THEN Append(st.new, Head(ids))
                        ELSE st.new],
               Tail(ids), present)

\* The state at the first statement of main: nothing is constructed.
InitMain ==
    /\ EmptyWorld
    /\ pool = <<>>
    /\ pc = "main"
    /\ IdleEngine
    /\ IdleHistory
    /\ IdleSys

\* Engine::init, and main's return EXIT_FAILURE when it fails.
EngineInit ==
    /\ pc = "main"
    /\ \E sdlOk \in BOOLEAN, audioOk \in BOOLEAN, windowOk \in BOOLEAN,
          rendererOk \in BOOLEAN :
          IF ~sdlOk
          THEN /\ pc' = "failed"
               /\ UNCHANGED <<audioAvailable, acquired, inputMap, bound, pool>>
          ELSE /\ audioAvailable' = audioOk
               /\ IF ~windowOk \/ ~rendererOk
                  THEN /\ pc' = "failed"
                       /\ acquired' =
                             <<"sdl", "img">>
                                \o (IF audioOk THEN <<"mixer">> ELSE <<>>)
                                \o (IF windowOk THEN <<"window">> ELSE <<>>)
                       /\ UNCHANGED <<inputMap, bound, pool>>
                  ELSE /\ pc' = "assets"
                       /\ acquired' = InitAcquired(audioOk)
                       /\ inputMap' = bindAll(InputMap_bind, inputMap, InitBindings)
                       /\ bound' = bindAll(Bound_add, bound, InitBindings)
                       /\ pool' = NewPool(PoolSize)
    /\ prev' = [op |-> "init"]
    /\ UNCHANGED <<worldVars, running, quit, keys, accumulator, frameTime,
                   camX, camY, textures, sounds, released, played, issued,
                   killed, log, steps, frames>>
    /\ UNCHANGED clockVars

\* Engine::loadDefaultAssets.
LoadDefaultAssets ==
    /\ pc = "assets"
    /\ \E present \in TextureLoads, okBg \in BOOLEAN, okJump \in BOOLEAN :
          LET t == loadTextures([textures |-> textures, new |-> <<>>],
                                DefaultTextures, present)
              s1 == IF audioAvailable
                    THEN loadSound(audioAvailable, sounds, "bg", TRUE, okBg)
                    ELSE [sounds |-> sounds, result |-> None]
              s2 == IF audioAvailable
                    THEN loadSound(audioAvailable, s1.sounds, "jump", FALSE,
                                   okJump)
                    ELSE s1
          IN /\ textures' = t.textures
             /\ sounds' = s2.sounds
             /\ acquired' =
                   acquired \o t.new
                      \o (IF "bg" \in DOMAIN s2.sounds \ DOMAIN sounds
                          THEN <<"bg">> ELSE <<>>)
                      \o (IF "jump" \in DOMAIN s2.sounds \ DOMAIN sounds
                          THEN <<"jump">> ELSE <<>>)
    /\ pc' = "scene"
    /\ prev' = [op |-> "assets"]
    /\ UNCHANGED <<worldVars, pool, running, quit, keys, accumulator,
                   frameTime, camX, camY, audioAvailable, inputMap, released,
                   played, bound, issued, killed, log, steps, frames>>
    /\ UNCHANGED clockVars

\* A call of ResourceManager::loadSound("jump", ...) after the default
\* assets: the file may have been missing before and be present now.
LoadSound ==
    /\ pc = "scene"
    /\ \E ok \in BOOLEAN :
          LET r == loadSound(audioAvailable, sounds, "jump", FALSE, ok)
          IN /\ sounds' = r.sounds
             /\ acquired' = IF r.sounds # sounds THEN Append(acquired, "jump")
                            ELSE acquired
             /\ prev' = [op |-> "loadSound", result |-> r.result]
    /\ UNCHANGED <<worldVars, pool, engineVars, audioAvailable, textures,
                   inputMap, released, played, bound, issued, killed, log,
                   steps, frames>>
    /\ UNCHANGED clockVars

\* Engine::createDemoScene, then the first statements of run (running = true,
\* accumulator = 0): tiles first, then the player standing on them, then a
\* collectible.
CreateDemoScene ==
    /\ pc = "scene"
    /\ LET w == Scene(TRUE, TRUE, 0, 0)
       IN /\ nextId = 1
          /\ nextId' = w.nextId
          /\ entities' = w.entities
          /\ components' = w.c
    /\ played' = IF audioAvailable /\ playMusic(getSound(sounds, "bg"))
                 THEN played \cup {"bg"} ELSE played
    /\ running' = TRUE
    /\ accumulator' = 0
    /\ pc' = "poll"
    /\ UNCHANGED <<pool, quit, keys, frameTime, camX, camY, audioAvailable,
                   textures, sounds, inputMap, acquired, released, bound,
                   histVars>>
    /\ UNCHANGED clockVars

NextMain ==
    \/ EngineInit
    \/ LoadDefaultAssets
    \/ LoadSound
    \/ CreateDemoScene
    \/ Poll
    \/ Scripts
    \/ Integrate
    \/ Collide
    \/ Animate
    \/ Particles
    \/ Render
    \/ Cleanup

SpecMain == InitMain /\ [][NextMain]_vars

\* The positions of main.
PcMain ==
    {"main", "assets", "scene", "poll", "scripts", "physics", "collision",
     "animations", "particles", "render", "cleanup", "done", "failed"}

\* main has a next statement to go to: it has not returned, and the model's
\* bound on frames does not stop it.  This is exactly when NextMain has a
\* step that changes pc.
CanAdvance ==
    /\ pc \notin {"done", "failed"}
    /\ pc = "poll" => frames < MaxFrames

\* The position changes.
Advance == CanAdvance /\ \E p \in PcMain \ {pc} : pc' = p

\* The program is sequential and each of its statements returns: while main
\* has a next statement, it eventually moves on.
SpecMainLive == SpecMain /\ WF_pc(Advance)

-----------------------------------------------------------------------------
(* The claims about the loop. *)

\* A fixed update has run all its systems, and nothing has run since.
FixedUpdateDone == Len(log) = 5 /\ pc # "done"

\* What the collision pass of the current fixed update resolved.
Resolved == IF Len(log) >= 3 THEN Range(log[3].resolved) ELSE {}

\* The entities with Physics.
Bodies == {id \in Range(entities) : World_get(components, id, "physics") # None}

\* The entities with a static collider.
Floors ==
    {id \in Range(entities) :
        /\ World_get(components, id, "collider") # None
        /\ World_get(components, id, "collider").isStatic}

(* C2 (as stated): at the end of a fixed update an entity with Physics has  *)
(* onGround = true only if the collision pass of that fixed update resolved *)
(* a Y-axis contact that set its flag.                                      *)
C2_GroundRecomputed ==
    FixedUpdateDone =>
        \A id \in Bodies :
            World_get(components, id, "physics").onGround =>
                \E r \in Resolved :
                    /\ r.axis = "Y"
                    /\ \/ r.a = id /\ r.groundA
                       \/ r.b = id /\ r.groundB

(* C3: no frame runs more than 15 fixed updates, and a frame whose elapsed  *)
(* time is at least 0.25 s has run exactly 15 when it renders, whatever the *)
(* accumulator held before it.                                              *)
C3_AccumulatorClamp ==
    /\ steps <= 15
    /\ (pc = "render" /\ frameTime >= MaxAccum) => steps = 15

\* A frame of 0.5 s that began with time left in the accumulator renders
\* after 15 fixed updates.
C3_Witness ==
    /\ pc = "render"
    /\ frameTime = 300
    /\ prev.op = "poll"
    /\ prev.acc > 0
    /\ steps = 15

Scripted == SelectSeq(entities, LAMBDA id : HasUpdate(components, id))

(* C4: within a fixed update the systems run in the order scripts, physics, *)
(* collision, animations, particles, each once and each only after the one  *)
(* before it has finished; the script system calls the update callback of   *)
(* every entity that has one, in store order, with dt = the fixed step.     *)
C4_SystemOrder ==
    /\ Len(log) <= 5
    /\ \A i \in DOMAIN log :
          log[i].ev = <<"scripts", "physics", "collision", "animations",
                        "particles">>[i]
    /\ pc = "physics" => Len(log) = 1
    /\ pc = "collision" => Len(log) = 2
    /\ pc = "animations" => Len(log) = 3
    /\ pc = "particles" => Len(log) = 4
    /\ pc \in {"poll", "scripts", "render", "cleanup", "done"} =>
          Len(log) \in {0, 5}
    /\ (Len(log) >= 1 /\ pc # "done") =>
          /\ log[1].ids = Scripted
          /\ log[1].dt = FixedDt

\* The second fixed update of a frame is about to run its last system, in a
\* scene where two entities have scripts.
C4_Witness ==
    /\ pc = "particles"
    /\ steps = 1
    /\ Len(log) = 4
    /\ Len(log[1].ids) = 2

\* The camera target while the model's world exists.
TargetNow ==
    IF Trackable(components, entities) = {} THEN <<camX, camY>>
    ELSE Target(components, entities)

(* C5 (as stated): the smoothing is applied once per fixed update: the last *)
(* system of a fixed update leaves the camera one smoothing step nearer the *)
(* target, and a frame without fixed updates leaves the camera where it was.*)
C5_SmoothingPerFixedUpdate ==
    [][/\ (pc = "render" /\ steps = 0) => (camX' = camX /\ camY' = camY)
       /\ pc = "particles" =>
             /\ camX' = camX + ((TargetNow[1] - camX) * 12) \div 100
             /\ camY' = camY + ((TargetNow[2] - camY) * 12) \div 100]_vars

(* C5 (amended): the smoothing is applied once per rendered frame, by       *)
(* render(): a frame applies cam += (target - cam) * 0.12 exactly once,     *)
(* whether it ran zero, one or many fixed updates, and no fixed update      *)
(* moves the camera; starting at cam = (0, 0) with target = (100, 100) px,  *)
(* one render gives cam = (12, 12) px.                                      *)
C5_SmoothingPerFrame ==
    [][/\ pc = "render" =>
             /\ camX' = camX + ((TargetNow[1] - camX) * 12) \div 100
             /\ camY' = camY + ((TargetNow[2] - camY) * 12) \div 100
       /\ pc # "render" => (camX' = camX /\ camY' = camY)
       /\ (pc = "render" /\ camX = 0 /\ camY = 0 /\ TargetNow = <<400, 400>>)
             => (camX' = 48 /\ camY' = 48)]_vars

\* The first frame ran two fixed updates or more, and its render moved the
\* camera from (0, 0) by one smoothing step towards a target 100 px away on X.
C5_Witness ==
    /\ prev.op = "render"
    /\ frames = 1
    /\ steps >= 2
    /\ prev.camX = 0
    /\ camX = 48

\* The contacts between a body without a script and a floor that the
\* collision pass of the current fixed update resolved.
Landings ==
    {r \in Resolved :
        \/ r.a \in Bodies /\ r.b \in Floors
                          /\ World_get(components, r.a, "script") = None
        \/ r.b \in Bodies /\ r.a \in Floors
                          /\ World_get(components, r.b, "script") = None}

\* The body of a contact between a body and a floor.
BodyOf(r) == IF r.a \in Bodies THEN r.a ELSE r.b

\* The body's center is above the floor's in the contact r.
BodyAbove(r) == IF r.a \in Bodies THEN r.o.dy > 0 ELSE r.o.dy < 0

(* C9 (as stated): a dynamic entity with gravity dropped on a static floor  *)
(* it overlaps horizontally has onGround = true and vy = 0 at the end of    *)
(* the fixed update in which its contact with the floor is resolved,        *)
(* whichever of the two was created first.                                  *)
C9_LandsOnContact ==
    FixedUpdateDone =>
        \A r \in Landings :
            /\ World_get(components, BodyOf(r), "physics").onGround
            /\ World_get(components, BodyOf(r), "physics").vy = 0

(* C9 (amended): the same, for a contact whose Y overlap does not exceed    *)
(* its X overlap and in which the body's center is above the floor's: such  *)
(* a contact is resolved along Y, and the body ends that fixed update with  *)
(* onGround = true and vy = 0, whichever of the two was created first; a    *)
(* contact whose Y overlap exceeds its X overlap is resolved along X and    *)
(* the body goes on falling (vy > 0).                                       *)
C9_LandsOnShallowContact ==
    FixedUpdateDone =>
        \A r \in Landings :
            /\ (r.o.overlapY <= r.o.overlapX /\ BodyAbove(r)) =>
                  /\ r.axis = "Y"
                  /\ World_get(components, BodyOf(r), "physics").onGround
                  /\ World_get(components, BodyOf(r), "physics").vy = 0
            /\ r.o.overlapY > r.o.overlapX =>
                  /\ r.axis = "X"
                  /\ World_get(components, BodyOf(r), "physics").vy > 0

\* A body created after the floor has fallen onto it and penetrated it: the
\* contact was resolved, the body is on the ground and at rest.
C9_Witness ==
    /\ FixedUpdateDone
    /\ \E r \in Landings :
          /\ r.b \in Bodies
          /\ r.o.overlapY > 0
          /\ r.o.overlapY <= r.o.overlapX
          /\ World_get(components, r.b, "transform").y > BodyY
          /\ World_get(components, r.b, "physics").onGround
          /\ World_get(components, r.b, "physics").vy = 0

-----------------------------------------------------------------------------
(* C7 (as stated): no component outlives its entity: every id with an entry *)
(* in the component table is in the active list, and World::get returns     *)
(* null for every name of an id that has been destroyed.                    *)
C7_NoComponentOutlivesEntity ==
    /\ DOMAIN components \subseteq Range(entities)
    /\ \A id \in killed, name \in CompNames :
          World_get(components, id, name) = None

(* C8: every create returns an id greater than every id returned before, a  *)
(* destroyed id is not in the active list and is never returned again, and  *)
(* the active list holds exactly the live ids, without duplicates, in       *)
(* increasing (creation) order.                                             *)
C8_IdsUniqueNeverReused ==
    /\ StrictlyIncreasing(issued)
    /\ StrictlyIncreasing(entities)
    /\ Range(entities) = Range(issued) \ killed
    /\ \A id \in Range(issued) : id < nextId

\* A create has returned an id after an earlier id was destroyed.
C8_Witness ==
    /\ prev.op = "create"
    /\ killed # {}
    /\ Len(issued) >= 2
    /\ Len(entities) >= 1

-----------------------------------------------------------------------------
(* SpecAnim: fixedUpdate called step after step on a world of two animated  *)
(* sprites, one left alone and one retimed by the player script as the keys *)
(* change.                                                                  *)

\* Fixed updates run by the animation specification.
MaxAnimSteps == 22

\* Engine::fixedUpdate on the component table: scripts, integration, the
\* collision pass, animations (the particle pool is updated by the action).
fixedUpdate(c, ents, down) ==
    LET c1 == runScripts([c |-> c, ids |-> <<>>], ents, 1, down).c
        c2 == integrate(c1, ents, 1)
        c3 == collisionSolve(c2, ents).c
    IN animate(c3, ents, 1)

\* frameCount and frameTime of the sprite that is left alone: the four
\* frames of the player at the default frame time, a single frame, and a
\* frameCount of 0.
AnimSprites ==
    {<<4, FrameTimeDefault>>, <<1, FrameTimeDefault>>, <<0, FrameTimeMoving>>}

\* The keys the input holds down between fixed updates.
AnimKeySets == {{}, {"D"}}

\* An entity with an animated sprite and nothing else.
spriteEntity(w, frameCount, frameTimeA) ==
    LET r == World_create(w.nextId, w.entities)
        c1 == World_add(w.c, r.id, "sprite",
                        AnimatedSprite(frameCount, frameTimeA))
    IN [nextId |-> r.nextId, entities |-> r.entities, c |-> c1]

\* An entity built as the player of createDemoScene, without a collider and
\* with two frames.
scriptedEntity(w) ==
    LET r == World_create(w.nextId, w.entities)
        c1 == World_add(w.c, r.id, "transform", Transform(0, 0))
        c2 == World_add(c1, r.id, "sprite",
                        AnimatedSprite(2, FrameTimeMoving))
        c3 == World_add(c2, r.id, "physics", Physics(0, 0, FALSE))
        c4 == World_add(c3, r.id, "script", Script("player"))
    IN [nextId |-> r.nextId, entities |-> r.entities, c |-> c4]

InitAnim ==
    /\ \E sp \in AnimSprites :
          LET w == scriptedEntity(
                      spriteEntity([nextId |-> 1, entities |-> <<>>,
                                    c |-> EmptyFn], sp[1], sp[2]))
          IN /\ nextId = w.nextId
             /\ entities = w.entities
             /\ components = w.c
    /\ pool = NewPool(PoolSize)
    /\ pc = "anim"
    /\ IdleEngine
    /\ IdleHistory
    /\ IdleSys

\* InputState::update on key events: the keys held down change.
SetKeys ==
    /\ pc = "anim"
    /\ \E ks \in AnimKeySets \ {keys} : keys' = ks
    /\ UNCHANGED <<worldVars, pool, pc, running, quit, accumulator, frameTime,
                   camX, camY, histVars>>
    /\ UNCHANGED sysVars
    /\ UNCHANGED clockVars

\* One call of fixedUpdate(1/60).
FixedStep ==
    /\ pc = "anim"
    /\ steps < MaxAnimSteps
    /\ components' = fixedUpdate(components, entities, keys)
    /\ pool' = update(pool, 1)
    /\ steps' = steps + 1
    /\ prev' = [op |-> "fixed", comps |-> components]
    /\ UNCHANGED <<nextId, entities, engineVars, issued, killed, log, frames>>
    /\ UNCHANGED sysVars
    /\ UNCHANGED clockVars

NextAnim == SetKeys \/ FixedStep

SpecAnim == InitAnim /\ [][NextAnim]_vars

\* The animation of entity id in the table c.
Anim(c, id) == World_get(c, id, "sprite")

\* The entities with an animated sprite.
Animated == {id \in Range(entities) : Anim(components, id) # None}

(* C12: a sprite with frameCount = 4 and frameTime = 0.1 s that no script   *)
(* retimes has advanced its frame index by exactly 3 after 21 fixed         *)
(* updates; and in every fixed update, for every sprite, either the timer   *)
(* plus dt reaches frameTime, the timer is then 0 and the index is one more *)
(* modulo frameCount, or the timer is dt more and the index is the same.    *)
C12_AnimationAdvance ==
    /\ (/\ steps = 21
        /\ Anim(components, 1).frameCount = 4
        /\ Anim(components, 1).frameTime = FrameTimeDefault)
          => Anim(components, 1).current = 3
    /\ prev.op = "fixed" =>
          \A id \in Animated :
             LET b == Anim(prev.comps, id)
                 a == Anim(components, id)
             IN IF b.timer + AnimDt >= a.frameTime
                THEN /\ a.timer = 0
                     /\ a.current = (b.current + 1) % Max(1, a.frameCount)
                ELSE /\ a.timer = b.timer + AnimDt
                     /\ a.current = b.current

\* The 21st fixed update has just advanced the four-frame sprite to frame 3.
C12_Witness ==
    /\ steps = 21
    /\ prev.op = "fixed"
    /\ Anim(components, 1).frameCount = 4
    /\ Anim(components, 1).frameTime = FrameTimeDefault
    /\ Anim(prev.comps, 1).current = 2
    /\ Anim(components, 1).current = 3
    /\ Anim(components, 1).timer = 0

(* C13: every animated sprite with frameCount >= 1 has its frame index in   *)
(* 0 .. frameCount - 1 after any number of fixed updates, also when the     *)
(* script has changed its frameTime between updates.                        *)
C13_IndexInRange ==
    \A id \in Animated :
        Anim(components, id).frameCount >= 1 =>
            /\ 0 <= Anim(components, id).current
            /\ Anim(components, id).current < Anim(components, id).frameCount

\* The fixed update in which the script changed the frame time of the
\* two-frame sprite from 0.4 s to 0.12 s took its index from the last frame
\* back to 0.
C13_Witness ==
    /\ prev.op = "fixed"
    /\ Anim(prev.comps, 2).frameTime = FrameTimeIdle
    /\ Anim(components, 2).frameTime = FrameTimeMoving
    /\ Anim(prev.comps, 2).current = 1
    /\ Anim(components, 2).current = 0

-----------------------------------------------------------------------------
(* The claims about main: startup, the end of the loop, teardown.           *)

\* The position of x in the sequence q.
Pos(q, x) == CHOOSE i \in DOMAIN q : q[i] = x

\* x comes before y in the sequence q, which holds both.
Before(q, x, y) ==
    /\ x \in Range(q)
    /\ y \in Range(q)
    /\ Pos(q, x) < Pos(q, y)

\* No element occurs twice in the sequence q.
NoRepeat(q) == \A i, j \in DOMAIN q : q[i] = q[j] => i = j

\* The textures and the sounds that were loaded.
LoadedTextures == Range(acquired) \cap {"player", "tiles", "font"}

LoadedSounds == Range(acquired) \cap {"bg", "jump"}

(* C14 (as stated): when cleanup has run, whatever was acquired earlier has *)
(* been released later: the releases are in the reverse of the order of     *)
(* acquisition (sounds before textures, the four subsystems in reverse      *)
(* construction order, then renderer, window, audio device and libraries).  *)
C14_ReverseAcquisition ==
    pc = "done" =>
        \A x, y \in Range(acquired) :
            Before(acquired, x, y) => Before(released, y, x)

(* C14 (amended): cleanup releases everything that was acquired, each once, *)
(* in the order of its statements: the textures, then the sounds, then the  *)
(* resource manager, the world, the audio manager and the particle system   *)
(* (their construction order, not its reverse), then the renderer, the      *)
(* window, the audio device, SDL_image and SDL.  So every asset goes before *)
(* the renderer, the renderer before the window and the window before the   *)
(* libraries, but textures go before sounds and the subsystems go in the    *)
(* order they were built.                                                   *)
C14_TeardownOrder ==
    pc = "done" =>
        /\ Range(acquired) \subseteq Range(released)
        /\ NoRepeat(released)
        /\ \A t \in LoadedTextures, sn \in LoadedSounds : Before(released, t, sn)
        /\ \A a \in LoadedTextures \cup LoadedSounds :
              Before(released, a, "resources")
        /\ SelectSeq(released,
                     LAMBDA x : x \notin LoadedTextures \cup LoadedSounds)
              = <<"resources", "world", "audio", "particles", "renderer",
                  "window", "mixer", "img", "sdl">>

\* Cleanup has run after a loop of at least one frame, with the audio device
\* open, three textures and two sounds loaded.
C14_Witness ==
    /\ pc = "done"
    /\ frames >= 1
    /\ "mixer" \in Range(acquired)
    /\ LoadedTextures = {"player", "tiles", "font"}
    /\ LoadedSounds = {"bg", "jump"}
    /\ Len(released) = Len(acquired)

\* Cleanup has started: the loop of run has been left.
LoopLeft == pc \in {"cleanup", "done"}

(* C15: run leaves its frame loop only after input polling has observed the *)
(* quit flag; once the flag is observed no further frame begins, and the    *)
(* frame in which it was observed ends in cleanup, which runs to its end;   *)
(* cleanup releases everything once; and once cleanup has started there is  *)
(* no input poll, fixed update or render any more.                          *)
C15_LoopTermination ==
    /\ [](LoopLeft => (quit /\ ~running))
    /\ [](quit => pc # "poll")
    /\ [][LoopLeft =>
            /\ pc = "cleanup" /\ pc' = "done"
            /\ frames' = frames /\ steps' = steps /\ log' = log
            /\ camX' = camX /\ camY' = camY /\ accumulator' = accumulator]_vars
    /\ [](pc = "done" => (NoRepeat(released) /\ "sdl" \in Range(released)))
    /\ (quit ~> pc = "done")

\* The quit flag was observed by the poll of the second frame, that frame
\* still ran fixed updates and rendered, and cleanup has run.
C15_Witness ==
    /\ pc = "done"
    /\ quit
    /\ frames = 2
    /\ steps > 0
    /\ prev.op = "render"

\* Engine::init created the window and the renderer.
VideoUp == {"window", "renderer"} \subseteq Range(acquired)

(* C17: when init has found the window and the renderer, it succeeds        *)
(* whether or not the audio device opened, and the audio-available flag     *)
(* tells which; with the flag false no sound is ever loaded (every          *)
(* loadSound returns null) and no sound or music is ever played; when the   *)
(* window or the renderer (or SDL itself) fails, main returns failure and   *)
(* the loop is never entered: no scene, no frame, no fixed update.          *)
C17_MutedMode ==
    /\ (pc # "main" /\ VideoUp) =>
          /\ pc # "failed"
          /\ audioAvailable = ("mixer" \in Range(acquired))
    /\ ~audioAvailable =>
          /\ sounds = EmptyFn
          /\ LoadedSounds = {}
          /\ played = {}
          /\ prev.op = "loadSound" => prev.result = None
    /\ (pc # "main" /\ ~VideoUp) =>
          /\ pc = "failed"
          /\ ~running
          /\ entities = <<>>
          /\ frames = 0 /\ steps = 0 /\ log = <<>>

\* In muted mode the loop is running, the player (entity 2) has just jumped,
\* and nothing was played.
C17_Witness ==
    /\ ~audioAvailable
    /\ VideoUp
    /\ pc = "animations"
    /\ World_get(components, 2, "physics").vy < 0
    /\ played = {}

-----------------------------------------------------------------------------
(* SpecInput: an InputMap under any sequence of bind calls, and an          *)
(* InputState under any sequence of key events.                             *)

\* The actions the callers bind and query; "right" is queried, never bound.
BindActions == {"left", "jump"}

QueryActions == {"left", "jump", "right"}

\* The keys of the bind calls and of the key events.
BindKeys == {"A", "LEFT", "SPACE"}

InitInput ==
    /\ EmptyWorld
    /\ pool = <<>>
    /\ pc = "input"
    /\ IdleEngine
    /\ IdleHistory
    /\ IdleSys

\* inputMap.bind(action, key).
Bind ==
    /\ pc = "input"
    /\ \E a \in BindActions, k \in BindKeys :
          /\ inputMap' = InputMap_bind(inputMap, a, k)
          /\ bound' = Bound_add(bound, a, k)
    /\ UNCHANGED <<worldVars, pool, engineVars, audioAvailable, textures,
                   sounds, acquired, released, played, histVars>>
    /\ UNCHANGED clockVars

\* InputState::update on an SDL_KEYDOWN event: keys[scancode] = true.
KeyDown ==
    /\ pc = "input"
    /\ \E k \in BindKeys : keys' = keys \cup {k}
    /\ UNCHANGED <<worldVars, pool, pc, running, quit, accumulator, frameTime,
                   camX, camY, sysVars, histVars>>
    /\ UNCHANGED clockVars

\* InputState::update on an SDL_KEYUP event: keys[scancode] = false.
KeyUp ==
    /\ pc = "input"
    /\ \E k \in BindKeys : keys' = keys \ {k}
    /\ UNCHANGED <<worldVars, pool, pc, running, quit, accumulator, frameTime,
                   camX, camY, sysVars, histVars>>
    /\ UNCHANGED clockVars

NextInput == Bind \/ KeyDown \/ KeyUp

SpecInput == InitInput /\ [][NextInput]_vars

\* The keys that bind was called with for the action a.
BoundKeys(a) == IF a \in DOMAIN bound THEN bound[a] ELSE {}

(* C16 (as stated): after any bind calls, actionDown(state, action) is true *)
(* exactly when at least one of the keys bound to the action is down; an    *)
(* action that was never bound is never down.                               *)
C16_AnyBoundKey ==
    \A a \in QueryActions :
        InputMap_actionDown(inputMap, keys, a)
           = (\E k \in BoundKeys(a) : InputState_down(keys, k))

-----------------------------------------------------------------------------
(* SpecPass: one collision pass over a world of up to MaxBodies bodies of   *)
(* the default size, for every placement and every choice of static flags.  *)

\* The largest number of bodies in the store.
MaxBodies == 3

\* The offsets of a body's center from body 1's, per axis.
PassOffsets == {-8, 0, 8, 16}

\* The table of the bodies id, id + 1, ... added to c: a Transform at pos[id],
\* a default Collider with the static flag statics[id], and a Physics.
RECURSIVE PassWorld(_, _, _, _)
PassWorld(c, id, pos, statics) ==
    IF id > Len(pos) THEN c
    ELSE LET c1 == World_add(c, id, "transform",
                             Transform(pos[id][1], pos[id][2]))
             c2 == World_add(c1, id, "collider",
                             Collider(DefaultSize, DefaultSize, statics[id]))
             c3 == World_add(c2, id, "physics", PairPhysics)
         IN PassWorld(c3, id + 1, pos, statics)

InitPass ==
    /\ \E n \in 1..MaxBodies :
          \E pos \in [1..n -> PassOffsets \X PassOffsets],
             statics \in [1..n -> BOOLEAN] :
             /\ pos[1] = <<0, 0>>
             /\ nextId = n + 1
             /\ entities = [i \in 1..n |-> i]
             /\ components = PassWorld(EmptyFn, 1, pos, statics)
    /\ pool = <<>>
    /\ pc = "pass"
    /\ IdleEngine
    /\ IdleHistory
    /\ IdleSys

NextPass == CollisionPass

SpecPass == InitPass /\ [][NextPass]_vars

\* Body id has moved in the pass.
PassMoved(id) ==
    World_get(components, id, "transform") # World_get(prev.comps, id, "transform")

\* The pass has resolved the pair (a, b).
PassResolved(a, b) ==
    \E k \in 1..Len(prev.resolved) :
        prev.resolved[k].a = a /\ prev.resolved[k].b = b

(* C19: across a whole collision pass over any number of bodies and any     *)
(* configuration of overlaps, the transform of every body whose collider is *)
(* static is the same after the pass as before it (and so is its collider). *)
C19_StaticsStay ==
    prev.op = "pass" =>
        \A id \in Range(entities) :
            PairStatic(prev.comps, id) =>
                /\ World_get(components, id, "transform")
                      = World_get(prev.comps, id, "transform")
                /\ World_get(components, id, "collider")
                      = World_get(prev.comps, id, "collider")

\* A static body between two dynamic ones: the pass resolved it against
\* both, both have moved, and it has not.
C19_Witness ==
    /\ prev.op = "pass"
    /\ Len(entities) = 3
    /\ PairStatic(prev.comps, 2)
    /\ ~PairStatic(prev.comps, 1) /\ ~PairStatic(prev.comps, 3)
    /\ PassResolved(1, 2) /\ PassResolved(2, 3)
    /\ PassMoved(1) /\ PassMoved(3) /\ ~PassMoved(2)

\* The box of body id of the pass when its transform is tr.
BoxAt(id, tr) == AABB(tr, World_get(prev.comps, id, "collider"))

(* C22: within one collision pass, the intersection test and the overlap of *)
(* every pair (a, b) are computed from the transforms the two bodies have   *)
(* at that moment, displacements by pairs resolved earlier in the pass      *)
(* included: the boxes handed to aabbIntersect and resolveCollision are the *)
(* boxes at the current positions, so every pair that intersects where the  *)
(* bodies now are, and no other, is resolved, with its current overlap.     *)
C22_CurrentPositions ==
    prev.op = "pass" =>
        \A k \in 1..Len(prev.tested) :
            LET t == prev.tested[k]
            IN /\ t.aa = BoxAt(t.a, t.at)
               /\ t.bb = BoxAt(t.b, t.bt)
               /\ t.hit = aabbIntersect(BoxAt(t.a, t.at), BoxAt(t.b, t.bt))

=============================================================================
